---- MODULE Spec2Model ----
(***************************************************************************)
(* Model of the gtm-docs formatting engine (src/formatter.py, MDFormatter) *)
(* and of the element processing that feeds it (src/gtm_docs.py, GTMDocs). *)
(*                                                                         *)
(* A Python str is a sequence of one-character strings; a Python dict is a *)
(* function whose DOMAIN is the set of keys present; a Python list is a    *)
(* sequence.  Str(s) turns a character sequence into a TLA+ string so that *)
(* results can be compared with literals.                                  *)
(***************************************************************************)
EXTENDS Integers, Sequences, FiniteSets, TLC

VARIABLES
    pc,                   \* position of the caller
    arg,                  \* argument(s) of the helper under call
    ret,                  \* value(s) returned by the helper under call
    types_dictionary,     \* dictionary.types_dictionary
    filtered_parameters,  \* dictionary.filtered_parameters
    loaded_elements,      \* GTMDocs.loaded_elements
    elements,             \* GTMDocs.elements, the list handed to doc()
    before,               \* the elements as they were when doc() was entered
    md_doc,               \* doc(): the list of blocks, md_doc
    md                    \* doc(): the returned document, md

vars == <<pc, arg, ret, types_dictionary, filtered_parameters,
          loaded_elements, elements, before, md_doc, md>>

(***************************************************************************)
(* Bounds of the model.                                                    *)
(***************************************************************************)
MaxNameLen == 4

(***************************************************************************)
(* Characters.                                                             *)
(***************************************************************************)
\* the printable characters of code points 32..95, in order
Printable ==
    << " ", "!", "\"", "#", "$", "%", "&", "'", "(", ")", "*", "+",
       ",", "-", ".", "/", "0", "1", "2", "3", "4", "5", "6", "7",
       "8", "9", ":", ";", "<", "=", ">", "?", "@", "A", "B", "C",
       "D", "E", "F", "G", "H", "I", "J", "K", "L", "M", "N", "O",
       "P", "Q", "R", "S", "T", "U", "V", "W", "X", "Y", "Z", "[",
       "\\", "]", "^", "_" >>

\* the printable characters from code point 97 on (96, the grave accent, is
\* left out: no string of the model holds it)
PrintableHigh ==
    << "a", "b", "c", "d", "e", "f", "g", "h", "i", "j", "k", "l",
       "m", "n", "o", "p", "q", "r", "s", "t", "u", "v", "w", "x",
       "y", "z", "{", "|", "}", "~" >>

\* ord(c): the code point of a character
Ord(c) ==
    IF c = "\t" THEN 9
    ELSE IF c = "\n" THEN 10
    ELSE IF c = "\r" THEN 13
    ELSE IF \E i \in 1..Len(Printable) : Printable[i] = c
         THEN 31 + (CHOOSE i \in 1..Len(Printable) : Printable[i] = c)
    ELSE 96 + (CHOOSE i \in 1..Len(PrintableHigh) : PrintableHigh[i] = c)

Chr(n) == IF n < 96 THEN Printable[n - 31] ELSE PrintableHigh[n - 96]

IsUpper(c) == Ord(c) \in 65..90
IsLower(c) == Ord(c) \in 97..122
\* the class \s of the re module
IsSpace(c) == c \in {" ", "\t", "\n", "\r"}

CharLower(c) == IF IsUpper(c) THEN Chr(Ord(c) + 32) ELSE c
CharUpper(c) == IF IsLower(c) THEN Chr(Ord(c) - 32) ELSE c

\* str.lower()
StrLower(s) == [i \in 1..Len(s) |-> CharLower(s[i])]

\* str.replace(old, '') for a one-character old
RemoveChar(s, old) == SelectSeq(s, LAMBDA c : c # old)

\* str.replace(old, '', 1): only the first occurrence goes
RECURSIVE RemoveFirstChar(_, _)
RemoveFirstChar(s, old) ==
    IF s = <<>> THEN <<>>
    ELSE IF Head(s) = old THEN Tail(s)
    ELSE <<Head(s)>> \o RemoveFirstChar(Tail(s), old)

RECURSIVE DropSpaces(_)
DropSpaces(s) ==
    IF s # <<>> /\ IsSpace(Head(s)) THEN DropSpaces(Tail(s)) ELSE s

\* re.sub(r'\s+', repl, s)
RECURSIVE SubSpaceRuns(_, _)
SubSpaceRuns(repl, s) ==
    IF s = <<>> THEN <<>>
    ELSE IF IsSpace(Head(s)) THEN repl \o SubSpaceRuns(repl, DropSpaces(s))
    ELSE <<Head(s)>> \o SubSpaceRuns(repl, Tail(s))

\* A local variable of the code: v is evaluated once, and F on its value.
Bind(v, F(_)) == CHOOSE y \in {F(x) : x \in {v}} : TRUE

\* the character sequence as a string
RECURSIVE Str(_)
Str(s) == IF s = <<>> THEN "" ELSE Head(s) \o Str(Tail(s))

\* all strings over an alphabet of length at most n
StringsUpTo(alphabet, n) == UNION {[1..k -> alphabet] : k \in 0..n}

(***************************************************************************)
(* MDFormatter._anchorize                                                  *)
(***************************************************************************)
AnchorizeFirstHyphenOnly(name) ==
    SubSpaceRuns(<<"-">>, RemoveFirstChar(StrLower(name), "-"))

Anchorize(name) ==
    SubSpaceRuns(<<"-">>, RemoveChar(StrLower(name), "-"))

(***************************************************************************)
(* Repeated slugging of a display name: _anchorize applied to a name, to   *)
(* the slug, and to the slug of the slug.                                  *)
(***************************************************************************)
NameAlphabet == {"a", "B", "-", " ", "\t"}

Idle ==
    /\ types_dictionary = <<>>
    /\ filtered_parameters = {}
    /\ loaded_elements = <<>>
    /\ elements = <<>>
    /\ before = <<>>
    /\ md_doc = <<>>
    /\ md = <<>>

IdleUnchanged ==
    UNCHANGED <<types_dictionary, filtered_parameters, loaded_elements,
                elements, before, md_doc, md>>

InitAnchorize ==
    /\ pc = "name"
    /\ arg \in StringsUpTo(NameAlphabet, MaxNameLen)
    /\ ret = <<>>
    /\ Idle

SlugName ==
    /\ pc = "name"
    /\ ret' = <<Anchorize(arg)>>
    /\ pc' = "slug"
    /\ UNCHANGED arg
    /\ IdleUnchanged

SlugAgain ==
    /\ pc \in {"slug", "slug of slug"}
    /\ ret' = Append(ret, Anchorize(ret[Len(ret)]))
    /\ pc' = IF pc = "slug" THEN "slug of slug" ELSE "done"
    /\ UNCHANGED arg
    /\ IdleUnchanged

NextAnchorize == SlugName \/ SlugAgain

SpecAnchorize == InitAnchorize /\ [][NextAnchorize]_vars

\* C3: for x a slug (x = ret[1], an output of _anchorize),
\* anchorize(anchorize(x)) (= ret[3]) equals anchorize(x) (= ret[2]).
AnchorizeIdempotentOnSlugs ==
    pc = "done" => ret[3] = ret[2]

\* a slug that still changes when slugged (it has a hyphen), slugged twice
AnchorizeIdempotentWitness ==
    /\ pc = "done"
    /\ "-" \in {ret[1][i] : i \in 1..Len(ret[1])}
    /\ ret[2] # ret[1]

(***************************************************************************)
(* Exceptions: a raised exception is the one-element tuple of its name,    *)
(* which no character sequence equals.                                     *)
(***************************************************************************)
IndexError == <<"IndexError">>
KeyError == <<"KeyError">>
Raised(v) == v \in {IndexError, KeyError}

\* None, for an optional string argument
None == <<"None">>

(***************************************************************************)
(* MDFormatter._camel_to_title                                             *)
(***************************************************************************)
\* str.istitle(): the scan with previous_is_cased and cased
RECURSIVE IsTitleScan(_, _, _)
IsTitleScan(s, previous_is_cased, cased) ==
    IF s = <<>> THEN cased
    ELSE IF IsUpper(Head(s))
         THEN ~previous_is_cased /\ IsTitleScan(Tail(s), TRUE, TRUE)
    ELSE IF IsLower(Head(s))
         THEN previous_is_cased /\ IsTitleScan(Tail(s), TRUE, TRUE)
    ELSE IsTitleScan(Tail(s), FALSE, cased)

IsTitle(s) == IsTitleScan(s, FALSE, FALSE)

\* the longest prefix of s without a character of [A-Z]
RECURSIVE NonUpperRun(_)
NonUpperRun(s) ==
    IF s = <<>> \/ IsUpper(Head(s)) THEN <<>>
    ELSE <<Head(s)>> \o NonUpperRun(Tail(s))

\* re.sub(r'([^\s])([A-Z][^A-Z]+)', r'\1 \2', s): leftmost matches that do
\* not overlap, the last group greedy
RECURSIVE SubCamel(_)
SubCamel(s) ==
    IF s = <<>> THEN <<>>
    ELSE IF /\ Len(s) >= 3
            /\ ~IsSpace(s[1])
            /\ IsUpper(s[2])
            /\ ~IsUpper(s[3])
         THEN Bind(NonUpperRun(SubSeq(s, 3, Len(s))), LAMBDA run :
                  <<s[1], " ", s[2]>> \o run
                      \o Bind(SubSeq(s, 3 + Len(run), Len(s)), SubCamel))
    ELSE <<Head(s)>> \o SubCamel(Tail(s))

RECURSIVE DropSpacesRight(_)
DropSpacesRight(s) ==
    IF s # <<>> /\ IsSpace(s[Len(s)])
    THEN DropSpacesRight(SubSeq(s, 1, Len(s) - 1)) ELSE s

\* str.strip()
Strip(s) == DropSpacesRight(DropSpaces(s))

\* the longest prefix of s without the character sep
RECURSIVE UpTo(_, _)
UpTo(s, sep) ==
    IF s = <<>> \/ Head(s) = sep THEN <<>>
    ELSE <<Head(s)>> \o UpTo(Tail(s), sep)

\* str.split(sep) for a one-character sep: always at least one part
RECURSIVE Split(_, _)
Split(s, sep) ==
    Bind(UpTo(s, sep), LAMBDA first :
        IF Len(first) = Len(s) THEN <<first>>
        ELSE <<first>> \o Bind(SubSeq(s, Len(first) + 2, Len(s)),
                               LAMBDA rest : Split(rest, sep)))

\* sep.join(parts)
RECURSIVE Join(_, _)
Join(sep, parts) ==
    IF parts = <<>> THEN <<>>
    ELSE IF Len(parts) = 1 THEN parts[1]
    ELSE parts[1] \o sep \o Join(sep, Tail(parts))

\* word[0].upper() + word[1:]
Capitalized(word) == <<CharUpper(word[1])>> \o Tail(word)

CamelToTitle(string) ==
    IF IsTitle(string) THEN string
    ELSE Bind(Split(Strip(SubCamel(string)), " "), LAMBDA words :
             IF \E i \in 1..Len(words) : words[i] = <<>>
             THEN IndexError    \* word[0] of an empty word
             ELSE Join(<<" ">>, [i \in 1..Len(words) |-> Capitalized(words[i])]))

(***************************************************************************)
(* Title-casing: _camel_to_title called on a string.                       *)
(***************************************************************************)
MaxWordLen == 5

WordAlphabet == {"a", "B", " "}

InitCamel ==
    /\ pc = "string"
    /\ arg \in StringsUpTo(WordAlphabet, MaxWordLen)
    /\ ret = <<>>
    /\ Idle

CamelToTitleCall ==
    /\ pc = "string"
    /\ ret' = CamelToTitle(arg)
    /\ pc' = "titled"
    /\ UNCHANGED arg
    /\ IdleUnchanged

NextCamel == CamelToTitleCall

SpecCamel == InitCamel /\ [][NextCamel]_vars

\* a space before every uppercase letter that follows a character neither
\* uppercase nor a space and is followed by one character more
RECURSIVE SpacedFrom(_, _)
SpacedFrom(s, i) ==
    IF i > Len(s) THEN <<>>
    ELSE (IF /\ i > 1
             /\ i < Len(s)
             /\ IsUpper(s[i])
             /\ ~IsUpper(s[i - 1])
             /\ ~IsSpace(s[i - 1])
          THEN <<" ">> ELSE <<>>)
         \o <<s[i]>> \o SpacedFrom(s, i + 1)

\* the first character of every word in upper case, the others as they are
FirstsUpper(s) ==
    [i \in 1..Len(s) |->
        IF i = 1 \/ s[i - 1] = " " THEN CharUpper(s[i]) ELSE s[i]]

\* a name in camelCase: it starts with a lowercase letter and has no space
IsCamelName(s) ==
    /\ s # <<>>
    /\ IsLower(s[1])
    /\ \A i \in 1..Len(s) : ~IsSpace(s[i])

\* C12, on the camelCase names the function is written for: a space goes
\* before exactly the uppercase letters that follow a character neither
\* uppercase nor a space and are followed by one character more, and then
\* only the first character of each word is put in upper case.
TitleCasedAsClaimed ==
    (pc = "titled" /\ ~IsTitle(arg) /\ IsCamelName(arg))
    => ret = FirstsUpper(SpacedFrom(arg, 1))

(***************************************************************************)
(* MDFormatter._strip_variables                                            *)
(***************************************************************************)
HasNewline(s) == \E i \in 1..Len(s) : s[i] = "\n"

StartsWithBraces(s) == Len(s) >= 2 /\ s[1] = "{" /\ s[2] = "{"

\* re.match('^{{(.*)}}$', s): group(1), or None when there is no match.  The
\* dot matches no newline, and $ matches at the end or before a last newline.
BraceMatch(s) ==
    IF /\ Len(s) >= 4
       /\ StartsWithBraces(s)
       /\ s[Len(s) - 1] = "}" /\ s[Len(s)] = "}"
       /\ ~HasNewline(SubSeq(s, 3, Len(s) - 2))
    THEN SubSeq(s, 3, Len(s) - 2)
    ELSE IF /\ Len(s) >= 5
            /\ StartsWithBraces(s)
            /\ s[Len(s) - 2] = "}" /\ s[Len(s) - 1] = "}" /\ s[Len(s)] = "\n"
            /\ ~HasNewline(SubSeq(s, 3, Len(s) - 3))
    THEN SubSeq(s, 3, Len(s) - 3)
    ELSE None

\* d[k] = v on a dict
Put(d, k, v) == [x \in DOMAIN d \cup {k} |-> IF x = k THEN v ELSE d[x]]

\* lines 227-236 for one of the fields key (anchor kanchor) and value (vanchor)
StripField(item, field, anchor) ==
    IF field \in DOMAIN item /\ BraceMatch(item[field]) # None
    THEN Bind(BraceMatch(item[field]), LAMBDA inner :
             Put(Put(item, field, inner), anchor, Anchorize(inner)))
    ELSE item

StripVariables(items) ==
    [i \in 1..Len(items) |->
        StripField(StripField(items[i], "key", "kanchor"), "value", "vanchor")]

(***************************************************************************)
(* MDFormatter._md_list.  The call returns the text and leaves the item    *)
(* dicts changed in place: MdList gives both, [text, items].               *)
(***************************************************************************)
Spaces(n) == [i \in 1..n |-> " "]

\* '[{}](#{})'.format(text, anchor)
MdLink(text, anchor) == <<"[">> \o text \o <<"]", "(", "#">> \o anchor \o <<")">>

\* the key part of a line, lines 106-111
KeyPart(item) ==
    IF "key" \in DOMAIN item /\ "kanchor" \in DOMAIN item
    THEN MdLink(item.key, item.kanchor)
    ELSE IF "key" \in DOMAIN item THEN item.key
    ELSE <<>>

\* the relation part of a line, lines 113-118
RelationPart(item) ==
    IF "key" \in DOMAIN item /\ "relation" \in DOMAIN item
    THEN <<" ", "*">> \o item.relation \o <<"*", " ">>
    ELSE IF "key" \in DOMAIN item THEN <<":", " ">>
    ELSE <<>>

\* the value part of a line, lines 120-125
ValuePart(item) ==
    IF "value" \in DOMAIN item /\ "vanchor" \in DOMAIN item
    THEN MdLink(item.value, item.vanchor)
    ELSE IF "value" \in DOMAIN item THEN <<"\"">> \o item.value \o <<"\"">>
    ELSE <<>>

\* the indent handed to the rendering of an item's own list, line 129
ChildIndent(indent) == 1

RECURSIVE MdList(_, _, _)
RECURSIVE MdItems(_, _)

\* one pass of the loop body, lines 99-131: [line, item, raised]
MdItem(item, indent) ==
    Bind(IF "key" \in DOMAIN item THEN CamelToTitle(item.key) ELSE <<>>,
         LAMBDA titled :
        IF Raised(titled)
        THEN [line |-> <<>>, item |-> item, raised |-> TRUE]
        ELSE
        Bind(IF "key" \in DOMAIN item
             THEN [item EXCEPT !.key = titled] ELSE item, LAMBDA item1 :
        Bind(Spaces(4 * indent) \o <<"-", " ">> \o KeyPart(item1)
                 \o RelationPart(item1) \o ValuePart(item1), LAMBDA head :
            IF "list" \in DOMAIN item1
            THEN Bind(MdList(item1.list, None, ChildIndent(indent)),
                      LAMBDA sub :
                     [line |-> head \o sub.text,
                      item |-> [item1 EXCEPT !.list = sub.items],
                      raised |-> Raised(sub.text)])
            ELSE [line |-> head, item |-> item1, raised |-> FALSE])))

\* the loop of lines 98-131: [parts, items, raised]
MdItems(items, indent) ==
    IF items = <<>> THEN [parts |-> <<>>, items |-> <<>>, raised |-> FALSE]
    ELSE Bind(MdItem(Head(items), indent), LAMBDA r :
             IF r.raised
             THEN [parts |-> <<>>, items |-> <<r.item>> \o Tail(items),
                   raised |-> TRUE]
             ELSE Bind(MdItems(Tail(items), indent), LAMBDA rest :
                      [parts |-> <<r.line>> \o rest.parts,
                       items |-> <<r.item>> \o rest.items,
                       raised |-> rest.raised]))

\* `if title:` holds for a title that is neither None nor ''
Truthy(title) == title # None /\ title # <<>>

\* lines 92-96: the first of the parts
FirstPart(title) ==
    IF Truthy(title) THEN <<"*", "*">> \o title \o <<"*", "*", "\n">> ELSE <<>>

MdListAlwaysJoined(items, title, indent) ==
    Bind(MdItems(items, indent), LAMBDA r :
        IF r.raised THEN [text |-> IndexError, items |-> r.items]
        ELSE [text |-> Join(<<"\n">>, <<FirstPart(title)>> \o r.parts),
              items |-> r.items])

MdList(items, title, indent) ==
    Bind(MdItems(items, indent), LAMBDA r :
        IF r.raised THEN [text |-> IndexError, items |-> r.items]
        ELSE IF Len(<<FirstPart(title)>> \o r.parts) = 1
             THEN [text |-> <<"\n">>, items |-> r.items]
        ELSE [text |-> Join(<<"\n">>, <<FirstPart(title)>> \o r.parts),
              items |-> r.items])

(***************************************************************************)
(* Resolving references: _strip_variables called on a list of one item.    *)
(***************************************************************************)
MaxInnerLen == 3

Wraps == {<<>>, <<"{">>, <<"{", "{">>, <<"}">>, <<"}", "}">>}

\* strings with and without the braces of a reference around them
ReferenceStrings ==
    {open \o inner \o close :
        open \in Wraps, close \in Wraps,
        inner \in StringsUpTo({"a", "P", " "}, MaxInnerLen)}

StripItems ==
    {[key |-> s] : s \in ReferenceStrings}
        \cup {[value |-> s] : s \in ReferenceStrings}
        \cup {[key |-> s, value |-> <<"{", "{", "v", "}", "}">>] :
                 s \in ReferenceStrings}
        \cup {[key |-> <<"k">>, value |-> s, vanchor |-> <<"x">>] :
                 s \in ReferenceStrings}

InitStrip ==
    /\ pc = "items"
    /\ arg \in {<<item>> : item \in StripItems}
    /\ ret = <<>>
    /\ Idle

StripVariablesCall ==
    /\ pc = "items"
    /\ ret' = StripVariables(arg)
    /\ pc' = "stripped"
    /\ UNCHANGED arg
    /\ IdleUnchanged

NextStrip == StripVariablesCall

SpecStrip == InitStrip /\ [][NextStrip]_vars

\* '{{' + inner + '}}'
Wrapped(s) ==
    /\ Len(s) >= 4
    /\ SubSeq(s, 1, 2) = <<"{", "{">>
    /\ SubSeq(s, Len(s) - 1, Len(s)) = <<"}", "}">>

InnerOf(s) == SubSeq(s, 3, Len(s) - 2)

\* the claim of C4 for one field of an item given and the item returned
ResolvedTrimmed(given, got, field, anchor) ==
    field \in DOMAIN given =>
        IF Wrapped(given[field])
        THEN /\ got[field] = Strip(InnerOf(given[field]))
             /\ anchor \in DOMAIN got
             /\ got[anchor] = Anchorize(Strip(InnerOf(given[field])))
        ELSE /\ got[field] = given[field]
             /\ (anchor \in DOMAIN got) = (anchor \in DOMAIN given)

\* C4: a fully wrapped key or value resolves to the inner name with the
\* whitespace next to the braces trimmed and to the anchor of that trimmed
\* name; any other string is left as it is and gets no anchor.
StripTrimsAndAnchors ==
    pc = "stripped" =>
        \A i \in 1..Len(arg) :
            /\ ResolvedTrimmed(arg[i], ret[i], "key", "kanchor")
            /\ ResolvedTrimmed(arg[i], ret[i], "value", "vanchor")

(***************************************************************************)
(* Rendering lists: _md_list called on nested items.                       *)
(***************************************************************************)
MaxDepth == 2
MaxItems == 2

Leaves ==
    {[key |-> <<"a", "B">>, value |-> <<"v">>], [value |-> <<"v">>]}

\* the shapes of an item's own list: empty, one item, one item and a leaf
RECURSIVE ItemTrees(_)
ItemTrees(depth) ==
    IF depth = 0 THEN Leaves
    ELSE LET sub == ItemTrees(depth - 1)
         IN  Leaves
             \cup {[key |-> <<"k">>, list |-> <<>>]}
             \cup {[key |-> <<"k">>, list |-> <<t>>] : t \in sub}
             \cup {[key |-> <<"k">>, list |-> <<t, [value |-> <<"v">>]>>] :
                      t \in sub}

ListsUpTo(S, n) == UNION {[1..k -> S] : k \in 0..n}

Titles == {None, <<>>, <<"P", "a", "r", "a", "m", "e", "t", "e", "r", "s">>}

InitList ==
    /\ pc = "items"
    /\ arg \in [items : ListsUpTo(ItemTrees(MaxDepth), MaxItems),
                title : Titles, indent : {0}]
    /\ ret = <<>>
    /\ Idle

MdListCall ==
    /\ pc = "items"
    /\ ret' = MdList(arg.items, arg.title, arg.indent)
    /\ pc' = "rendered"
    /\ UNCHANGED arg
    /\ IdleUnchanged

NextList == MdListCall

SpecList == InitList /\ [][NextList]_vars

RECURSIVE EntryDepths(_, _)
EntryDepths(items, depth) ==
    IF items = <<>> THEN <<>>
    ELSE LET item == Head(items)
         IN  <<depth>>
             \o (IF "list" \in DOMAIN item
                 THEN EntryDepths(item.list, depth + 1) ELSE <<>>)
             \o EntryDepths(Tail(items), depth)

LeadingSpaces(line) == Len(line) - Len(DropSpaces(line))

IsBulletLine(line) ==
    LET rest == DropSpaces(line)
    IN  Len(rest) >= 2 /\ rest[1] = "-" /\ rest[2] = " "

BulletLines(text) == SelectSeq(Split(text, "\n"), IsBulletLine)

\* C10: every entry has its own line, the lines come in the order of the
\* entries with each entry's children right after it, and the line of an
\* entry at depth d starts with 4*d spaces.
IndentFollowsDepth ==
    pc = "rendered" =>
        LET lines == BulletLines(ret.text)
            depths == EntryDepths(arg.items, arg.indent)
        IN  /\ Len(lines) = Len(depths)
            /\ \A i \in 1..Len(lines) : LeadingSpaces(lines[i]) = 4 * depths[i]

\* the entries of a list with their depths, each entry before its children
RECURSIVE Entries(_, _)
Entries(items, depth) ==
    IF items = <<>> THEN <<>>
    ELSE LET item == Head(items)
         IN  <<[depth |-> depth, item |-> item]>>
             \o (IF "list" \in DOMAIN item
                 THEN Entries(item.list, depth + 1) ELSE <<>>)
             \o Entries(Tail(items), depth)

StartsWith(line, prefix) ==
    Len(line) >= Len(prefix) /\ SubSeq(line, 1, Len(prefix)) = prefix

\* the start of the line of an entry whose key is emitted as it was given
KeyAsGiven(item) ==
    <<"-", " ">> \o (IF "kanchor" \in DOMAIN item THEN <<"[">> ELSE <<>>)
        \o item.key

\* C11: keys are title-cased only at the top level of a rendered list; the
\* line of a child entry (an entry of another entry's list) shows its key
\* exactly as it was given.
ChildKeysAsGiven ==
    pc = "rendered" =>
        LET lines == BulletLines(ret.text)
            entries == Entries(arg.items, arg.indent)
        IN  /\ Len(lines) = Len(entries)
            /\ \A i \in 1..Len(lines) :
                   (entries[i].depth > 0 /\ "key" \in DOMAIN entries[i].item)
                   => StartsWith(DropSpaces(lines[i]), KeyAsGiven(entries[i].item))

(***************************************************************************)
(* GTMDocs._process_filters                                                *)
(***************************************************************************)
\* [arg['value'] for arg in parameter if arg['key'] == key]
ArgValues(parameter, key) ==
    LET chosen == SelectSeq(parameter, LAMBDA a : a.key = key)
    IN  [i \in 1..Len(chosen) |-> chosen[i].value]

Arg0 == <<"a", "r", "g", "0">>
Arg1 == <<"a", "r", "g", "1">>
Negate == <<"n", "e", "g", "a", "t", "e">>
StrTrue == <<"t", "r", "u", "e">>
StrFalse == <<"f", "a", "l", "s", "e">>

\* the filter is taken as negated whatever its negate argument says
NegatedWhenGiven(trig_filter) ==
    LET negated == ArgValues(trig_filter.parameter, Negate)
    IN  Len(negated) = 1

IsNegated(trig_filter) ==
    LET negated == ArgValues(trig_filter.parameter, Negate)
    IN  Len(negated) = 1 /\ negated[1] = StrTrue

\* the relation of the new filter, lines 170 and 178-179
FilterRelation(trig_filter) ==
    IF IsNegated(trig_filter)
    THEN <<"n", "o", "t", " ">> \o trig_filter.type
    ELSE trig_filter.type

\* [...][0] of an empty list raises IndexError, lines 171-174
FilterRaises(trig_filter) ==
    \/ ArgValues(trig_filter.parameter, Arg0) = <<>>
    \/ ArgValues(trig_filter.parameter, Arg1) = <<>>

\* one pass of the loop, lines 169-181
ProcessFilter(trig_filter) ==
    [relation |-> FilterRelation(trig_filter),
     key |-> ArgValues(trig_filter.parameter, Arg0)[1],
     value |-> ArgValues(trig_filter.parameter, Arg1)[1]]

ProcessFiltersRaises(filters) ==
    \E i \in 1..Len(filters) : FilterRaises(filters[i])

ProcessFilters(filters) ==
    IF ProcessFiltersRaises(filters) THEN IndexError
    ELSE [i \in 1..Len(filters) |-> ProcessFilter(filters[i])]


(***************************************************************************)
(* A trigger's filters: _process_filters on the raw filters (gtm_docs.py   *)
(* lines 214-215), then _strip_variables and _md_list with the title       *)
(* 'Filters' (formatter.py lines 173-175).                                 *)
(***************************************************************************)
FiltersTitle == <<"F", "i", "l", "t", "e", "r", "s">>

Braced(s) == <<"{", "{">> \o s \o <<"}", "}">>

FilterNames == StringsUpTo({"e", "V", " "}, MaxNameLen)

FilterKeys == FilterNames \cup {Braced(n) : n \in FilterNames}

FilterValues == {<<"c", "l", "i", "c", "k">>, <<>>, Braced(<<"U", "r", "l">>)}

FilterTypes ==
    {<<"e", "q", "u", "a", "l", "s">>,
     <<"c", "o", "n", "t", "a", "i", "n", "s">>}

NegateArgs ==
    {<<>>, <<[key |-> Negate, value |-> StrTrue]>>,
     <<[key |-> Negate, value |-> StrFalse]>>}

RawFilters ==
    {[type |-> t,
      parameter |-> <<[key |-> Arg0, value |-> k],
                      [key |-> Arg1, value |-> v]>> \o n] :
         t \in FilterTypes, k \in FilterKeys, v \in FilterValues,
         n \in NegateArgs}
    \cup {[type |-> t, parameter |-> <<[key |-> Arg0, value |-> <<"e">>]>>] :
             t \in FilterTypes}

InitFilters ==
    /\ pc = "filters"
    /\ arg \in {<<f>> : f \in RawFilters}
    /\ ret = <<>>
    /\ Idle

ProcessFiltersCall ==
    /\ pc = "filters"
    /\ ret' = ProcessFilters(arg)
    /\ pc' = IF ProcessFiltersRaises(arg) THEN "raised" ELSE "processed"
    /\ UNCHANGED arg
    /\ IdleUnchanged

RenderFilters ==
    /\ pc = "processed"
    /\ ret' = MdList(StripVariables(ret), FiltersTitle, 0)
    /\ pc' = "rendered"
    /\ UNCHANGED arg
    /\ IdleUnchanged

NextFilters == ProcessFiltersCall \/ RenderFilters

SpecFilters == InitFilters /\ [][NextFilters]_vars

\* the filter has exactly one negate argument and it is 'true'
GivenNegated(f) ==
    \E i \in 1..Len(f.parameter) :
        f.parameter[i] = [key |-> Negate, value |-> StrTrue]

\* the line the claim of C9 gives for a filter with the key {{name}}
FilterLine(name, linktext, f) ==
    <<"-", " ">> \o MdLink(linktext, Anchorize(name))
        \o <<" ", "*">>
        \o (IF GivenNegated(f) THEN <<"n", "o", "t", " ">> ELSE <<>>)
        \o f.type \o <<"*", " ", "\"">> \o f.parameter[2].value \o <<"\"">>

\* a filter with both arguments, a key written as a reference and a value
\* that is none
KeyReferenceLiteralValue(f) ==
    /\ Len(f.parameter) >= 2
    /\ Wrapped(f.parameter[1].value)
    /\ ~Wrapped(f.parameter[2].value)

RECURSIVE StrLess(_, _)
StrLess(a, b) ==
    IF b = <<>> THEN FALSE
    ELSE IF a = <<>> THEN TRUE
    ELSE IF Head(a) = Head(b) THEN StrLess(Tail(a), Tail(b))
    ELSE Ord(Head(a)) < Ord(Head(b))

\* the place in sorted order of the i-th of the keys
SortedPlace(keys, i) ==
    1 + Cardinality({j \in 1..Len(keys) :
            \/ StrLess(keys[j], keys[i])
            \/ (keys[j] = keys[i] /\ j < i)})

\* the indices of the keys in the order sorted() puts them
SortedOrder(keys) ==
    [p \in 1..Len(keys) |-> CHOOSE i \in 1..Len(keys) : SortedPlace(keys, i) = p]

UnsortedOrder(keys) == [p \in 1..Len(keys) |-> p]

(***************************************************************************)
(* MDFormatter._md_headline, _md_notes, _md_key_value                      *)
(***************************************************************************)
MdHeadlineOfName(name) ==
    <<"#", "#", "#", "<", "a", " ", "n", "a", "m", "e", "=", "\"">>
        \o name \o <<"\"", "/", ">">> \o name

MdHeadline(name) ==
    <<"#", "#", "#", "<", "a", " ", "n", "a", "m", "e", "=", "\"">>
        \o Anchorize(name) \o <<"\"", "/", ">">> \o name

ViewOnGtm(url) ==
    <<"<", "s", "m", "a", "l", "l", ">">>
        \o <<"[", "v", "i", "e", "w", " ", "o", "n", " ", "G", "T", "M", "]", "(">>
        \o url \o <<")", "<", "/", "s", "m", "a", "l", "l", ">">>

\* the literal of lines 60-61 runs over a line break and its indentation
MdNotes(notes, url) ==
    IF Len(notes) = 0
    THEN <<"*", "N", "o", " ", "d", "e", "s", "c", "r", "i", "p", "t", "i", "o", "n", "*", " ">>
             \o <<"<", "s", "m", "a", "l", "l", ">", "\n">> \o Spaces(16)
             \o <<"[", "v", "i", "e", "w", " ", "o", "n", " ", "G", "T", "M", "]", "(">>
             \o url \o <<")", "<", "/", "s", "m", "a", "l", "l", ">">>
    ELSE notes \o <<" ">> \o ViewOnGtm(url)

MdKeyValue(key, value) == <<"*", "*">> \o key \o <<":", "*", "*", " ">> \o value

(***************************************************************************)
(* MDFormatter._md_section.  The call returns the text and leaves the      *)
(* element changed in place: MdSection gives both, [text, element].        *)
(***************************************************************************)
TagCategory == <<"t", "a", "g">>
TriggerCategory == <<"t", "r", "i", "g", "g", "e", "r">>
VariableCategory == <<"v", "a", "r", "i", "a", "b", "l", "e">>

ItemKeys(items) == [i \in 1..Len(items) |-> items[i].key]

\* lines 159-162: [text, items, raised]; the items keep their places in
\* element['parameter'], the rendering takes them sorted by key
SectionParameters(parameter) ==
    Bind(StripVariables(parameter), LAMBDA stripped :
    Bind(SortedOrder(ItemKeys(stripped)), LAMBDA order :
    Bind(MdList([p \in 1..Len(stripped) |-> stripped[order[p]]],
                <<"P", "a", "r", "a", "m", "e", "t", "e", "r", "s">>, 0),
         LAMBDA r :
        [text |-> r.text,
         items |-> [i \in 1..Len(stripped) |->
                       r.items[CHOOSE p \in 1..Len(stripped) : order[p] = i]]])))

\* lines 166-170
SectionTriggers(triggers) ==
    MdList([i \in 1..Len(triggers) |->
                Put(triggers[i], "vanchor", Anchorize(triggers[i].value))],
           <<"T", "r", "i", "g", "g", "e", "r", "s">>, 0)

\* lines 174-175
SectionFilters(filter) == MdList(StripVariables(filter), FiltersTitle, 0)

\* lines 159-177, the blocks after the type in turn: each one is rendered on
\* the element as the blocks before it left it
RECURSIVE SectionStages(_, _, _)
SectionStages(element, sections_, stage) ==
    Bind(sections_, LAMBDA sections :
    IF stage = "parameter" THEN
        IF "parameter" \in DOMAIN element
        THEN Bind(SectionParameters(element.parameter), LAMBDA r :
             Bind([element EXCEPT !.parameter = r.items], LAMBDA e :
                 IF Raised(r.text) THEN [text |-> r.text, element |-> e]
                 ELSE SectionStages(e, Append(sections, r.text), "triggers")))
        ELSE SectionStages(element, sections, "triggers")
    ELSE IF stage = "triggers" THEN
        IF element.category = TagCategory /\ "triggers" \in DOMAIN element
        THEN Bind(SectionTriggers(element.triggers), LAMBDA r :
             Bind([element EXCEPT !.triggers = r.items], LAMBDA e :
                 IF Raised(r.text) THEN [text |-> r.text, element |-> e]
                 ELSE SectionStages(e, Append(sections, r.text), "filter")))
        ELSE SectionStages(element, sections, "filter")
    ELSE IF stage = "filter" THEN
        IF element.category = TriggerCategory /\ "filter" \in DOMAIN element
        THEN Bind(SectionFilters(element.filter), LAMBDA r :
             Bind([element EXCEPT !.filter = r.items], LAMBDA e :
                 IF Raised(r.text) THEN [text |-> r.text, element |-> e]
                 ELSE SectionStages(e, Append(sections, r.text), "join")))
        ELSE SectionStages(element, sections, "join")
    ELSE [text |-> Join(<<"\n", "\n">>, sections), element |-> element])

MdSection(element) ==
    Bind(CamelToTitle(element.type), LAMBDA titled :
        IF Raised(titled) THEN [text |-> titled, element |-> element]
        ELSE Bind([element EXCEPT !.type = titled], LAMBDA e :
                 SectionStages(
                     e,
                     <<MdHeadline(element.name),
                       MdNotes(element.notes, element.tagManagerUrl),
                       MdKeyValue(<<"T", "y", "p", "e">>, titled)>>,
                     "parameter")))

(***************************************************************************)
(* MDFormatter.doc.  The call returns md and leaves the elements changed   *)
(* in place: Doc gives the blocks, the document and the elements.          *)
(***************************************************************************)
TagsHeading == <<"#", "#", " ", "T", "a", "g", "s">>
TriggersHeading == <<"#", "#", " ", "T", "r", "i", "g", "g", "e", "r", "s">>
VariablesHeading == <<"#", "#", " ", "V", "a", "r", "i", "a", "b", "l", "e", "s">>

ElementNames(elems) == [i \in 1..Len(elems) |-> elems[i].name]

\* [elem for elem in sorted_elements if elem['category'] == category], as
\* the places of the elements in the list given
OfCategory(elems, order, category) ==
    SelectSeq(order, LAMBDA i : elems[i].category = category)

\* the loops of lines 198-207 over the places that are left
RECURSIVE DocSections(_, _, _)
DocSections(elems, md_doc_, places) ==
    IF places = <<>>
    THEN [md_doc |-> md_doc_, elements |-> elems, raised |-> FALSE]
    ELSE Bind(MdSection(elems[Head(places)]), LAMBDA r :
         Bind([elems EXCEPT ![Head(places)] = r.element], LAMBDA changed :
         Bind(Append(md_doc_, r.text), LAMBDA blocks :
             IF Raised(r.text)
             THEN [md_doc |-> md_doc_, elements |-> changed, raised |-> TRUE]
             ELSE DocSections(changed, blocks, Tail(places)))))

DocOrderAsGiven(elems) == UnsortedOrder(ElementNames(elems))

\* line 190
DocOrder(elems) == SortedOrder(ElementNames(elems))

DocJoinSingleNewline(blocks) == Join(<<"\n">>, blocks)

\* line 209
DocJoin(blocks) == Join(<<"\n", "\n">>, blocks)

Doc(elems) ==
    IF \E i \in 1..Len(elems) : "category" \notin DOMAIN elems[i]
    THEN [md |-> KeyError, md_doc |-> <<>>, elements |-> elems]
    ELSE
    Bind(DocOrder(elems), LAMBDA order :
    Bind(DocSections(elems, <<TagsHeading>>,
                     OfCategory(elems, order, TagCategory)), LAMBDA tags :
    Bind(IF tags.raised THEN tags
         ELSE DocSections(tags.elements, Append(tags.md_doc, TriggersHeading),
                          OfCategory(elems, order, TriggerCategory)),
         LAMBDA triggers :
    Bind(IF triggers.raised THEN triggers
         ELSE DocSections(triggers.elements,
                          Append(triggers.md_doc, VariablesHeading),
                          OfCategory(elems, order, VariableCategory)),
         LAMBDA variables :
        [md |-> IF variables.raised THEN IndexError
                ELSE DocJoin(variables.md_doc),
         md_doc |-> variables.md_doc,
         elements |-> variables.elements]))))

(***************************************************************************)
(* GTMDocs._get_triggers, _filter_params, _process_element                 *)
(***************************************************************************)
\* dict.get(key, default)
Get(d, key, default) == IF key \in DOMAIN d THEN d[key] ELSE default

\* the dict without the keys outside keep
Restrict(d, keep) == [k \in DOMAIN d \cap keep |-> d[k]]

GetTriggers(loaded, ids) ==
    LET triggers == SelectSeq(loaded, LAMBDA elem : "triggerId" \in DOMAIN elem)
        firing == SelectSeq(triggers,
                            LAMBDA t : \E i \in 1..Len(ids) : ids[i] = t.triggerId)
    IN  [i \in 1..Len(firing) |-> [value |-> firing[i].name]]

Html == <<"h", "t", "m", "l">>
CustomCode == <<"c", "u", "s", "t", "o", "m", " ", "c", "o", "d", "e">>
MapType == <<"m", "a", "p">>

\* lines 143-151: the items of type 'map' as key and value
TransformList(list) ==
    LET maps == SelectSeq(list, LAMBDA item : item.type = MapType)
    IN  [i \in 1..Len(maps) |->
            [key |-> maps[i].map[1].value, value |-> maps[i].map[2].value]]

\* lines 134-138: the parameters that are left out
Skipped(param, filtered) ==
    \/ ("value" \in DOMAIN param /\ param.value = StrFalse)
    \/ param.key \in filtered

\* lines 140-151 on a parameter that is kept
Masked(param) ==
    Bind(IF param.key = Html THEN Put(param, "value", CustomCode) ELSE param,
         LAMBDA p :
        IF "list" \in DOMAIN p THEN [p EXCEPT !.list = TransformList(p.list)]
        ELSE p)

FilterParams(params, filtered) ==
    LET kept == SelectSeq(params, LAMBDA param : ~Skipped(param, filtered))
    IN  [i \in 1..Len(kept) |-> Masked(kept[i])]

Fields ==
    {"category", "customEventFilter", "filter", "triggers", "name", "notes",
     "parameter", "tagManagerUrl", "type"}

\* lines 209-220: the category and what comes with it
Categorized(element, loaded) ==
    IF "tagId" \in DOMAIN element
    THEN Put(Put(element, "category", TagCategory),
             "triggers", GetTriggers(loaded, element.firingTriggerId))
    ELSE IF "triggerId" \in DOMAIN element
    THEN Bind(Put(element, "category", TriggerCategory), LAMBDA e :
             IF "filter" \in DOMAIN e
             THEN Put(e, "filter", ProcessFilters(e.filter))
             ELSE IF "customEventFilter" \in DOMAIN e
             THEN Put(e, "filter", ProcessFilters(e.customEventFilter))
             ELSE e)
    ELSE IF "variableId" \in DOMAIN element
    THEN Put(element, "category", VariableCategory)
    ELSE element

\* _process_filters raises on a filter of the element
ProcessElementRaises(element) ==
    /\ "tagId" \notin DOMAIN element
    /\ "triggerId" \in DOMAIN element
    /\ IF "filter" \in DOMAIN element THEN ProcessFiltersRaises(element.filter)
       ELSE /\ "customEventFilter" \in DOMAIN element
            /\ ProcessFiltersRaises(element.customEventFilter)

ProcessElement(element, loaded, types, filtered) ==
    Bind(Categorized(element, loaded), LAMBDA e1 :
    Bind(Put(e1, "type", Get(types, e1.type, e1.type)), LAMBDA e2 :
    Bind(Put(e2, "notes", Get(e2, "notes", <<>>)), LAMBDA e3 :
    Bind(Put(e3, "parameter",
             FilterParams(Get(e3, "parameter", <<>>), filtered)), LAMBDA e4 :
        Restrict(e4, Fields)))))

(***************************************************************************)
(* The program: download() has fetched loaded_elements and processes them  *)
(* into elements (gtm_docs.py lines 78-79); save() builds the document     *)
(* with doc() (line 100), and may be called again on the same elements.    *)
(* loaded_elements stands for the data as fetched: _process_element also   *)
(* writes into those dicts, which nothing reads afterwards.                *)
(***************************************************************************)
MaxElements == 3

RawFilter(type, key, value, negate) ==
    [type |-> type,
     parameter |-> <<[key |-> Arg0, value |-> key],
                     [key |-> Arg1, value |-> value]>> \o negate]

TriggerAllPages ==
    [triggerId |-> <<"1">>, name |-> <<"a", " ", "P">>,
     type |-> <<"p", "a", "g", "e", "v", "i", "e", "w">>,
     tagManagerUrl |-> <<"u">>]

TriggerClick ==
    [triggerId |-> <<"2">>, name |-> <<"C", "l", "-", "k">>,
     type |-> <<"c", "l", "i", "c", "k">>,
     tagManagerUrl |-> <<"u">>, notes |-> <<"n">>,
     filter |-> <<RawFilter(<<"e", "q", "u", "a", "l", "s">>,
                            Braced(<<"E", "v">>), <<"x">>,
                            <<[key |-> Negate, value |-> StrTrue]>>),
                  RawFilter(<<"c", "o", "n", "t", "a", "i", "n", "s">>,
                            <<"u", "R", "L">>, Braced(<<"u", "R", "L">>),
                            <<>>)>>]

TriggerCustomEvent ==
    [triggerId |-> <<"3">>, name |-> <<"e", "v">>,
     type |-> <<"c", "u", "s", "t", "o", "m", "E", "v", "e", "n", "t">>,
     tagManagerUrl |-> <<"u">>,
     customEventFilter |-> <<RawFilter(<<"e", "q", "u", "a", "l", "s">>,
                                       Braced(<<"_", "e", "v">>),
                                       <<"g", "o">>, <<>>)>>]

TagHtml ==
    [tagId |-> <<"1">>, name |-> <<"b">>, type |-> Html,
     tagManagerUrl |-> <<"u">>, firingTriggerId |-> <<<<"1">>>>,
     parameter |-> <<[key |-> <<"t", "r", "a", "c", "k", "I", "d">>,
                      value |-> Braced(<<"E", "v">>)],
                     [key |-> Html, value |-> <<"<", "b", ">">>]>>]

TagUa ==
    [tagId |-> <<"2">>, name |-> <<"B", " ", "t">>, type |-> <<"u", "a">>,
     tagManagerUrl |-> <<"u">>, notes |-> <<"n">>,
     firingTriggerId |-> <<<<"2">>, <<"1">>>>,
     parameter |-> <<[key |-> <<"n", "a", "m", "e">>, value |-> StrFalse],
                     [key |-> Braced(<<"u", "R", "L">>), value |-> <<"y">>]>>]

VariableEvent ==
    [variableId |-> <<"1">>, name |-> <<"E", "v">>, type |-> <<"v">>,
     tagManagerUrl |-> <<"u">>,
     parameter |-> <<[key |-> <<"n", "a", "m", "e">>,
                      value |-> <<"e", "v", "e", "n", "t">>]>>]

VariableUrl ==
    [variableId |-> <<"2">>, name |-> <<"u", "R", "L">>,
     type |-> <<"j", "s", "m">>, tagManagerUrl |-> <<"u">>,
     parameter |-> <<[key |-> MapType,
                      list |-> <<[type |-> MapType,
                                  map |-> <<[value |-> <<"k", "A">>],
                                            [value |-> Braced(<<"E", "v">>)]>>],
                                 [type |-> <<"t">>, map |-> <<>>]>>]>>]

\* a parameter key with two spaces in a row: _camel_to_title raises on it
VariableBlankWord ==
    [variableId |-> <<"3">>, name |-> <<"a">>, type |-> <<"c">>,
     tagManagerUrl |-> <<"u">>,
     parameter |-> <<[key |-> <<"a", " ", " ", "b">>, value |-> <<"1">>]>>]

\* neither a tag nor a trigger nor a variable, with a category of its own
FolderElement ==
    [name |-> <<"F">>, type |-> <<"f", "o", "l", "d", "e", "r">>,
     category |-> <<"f", "o", "l", "d", "e", "r">>, tagManagerUrl |-> <<"u">>]

\* neither a tag nor a trigger nor a variable, without a category
ZoneElement ==
    [name |-> <<"Z">>, type |-> <<"z", "o", "n", "e">>,
     tagManagerUrl |-> <<"u">>]

RawElements ==
    {TriggerAllPages, TriggerClick, TriggerCustomEvent, TagHtml, TagUa,
     VariableEvent, VariableUrl, VariableBlankWord, FolderElement, ZoneElement}

\* what dictionary.py may hold (the module is not part of the sources)
TypesDictionaries ==
    {<<>>, [k \in {Html} |-> <<"C", "u", "s", "t", "o", "m", " ", "H", "T", "M", "L",
                             " ", "T", "a", "g">>]}

FilteredParameters == {{}, {<<"n", "a", "m", "e">>}}

Init ==
    /\ pc = "loaded"
    /\ arg = <<>>
    /\ ret = <<>>
    /\ types_dictionary \in TypesDictionaries
    /\ filtered_parameters \in FilteredParameters
    /\ loaded_elements \in ListsUpTo(RawElements, MaxElements)
    /\ elements = <<>>
    /\ before = <<>>
    /\ md_doc = <<>>
    /\ md = <<>>

Download ==
    /\ pc = "loaded"
    /\ IF \E i \in 1..Len(loaded_elements) :
              ProcessElementRaises(loaded_elements[i])
       THEN pc' = "download raised" /\ UNCHANGED elements
       ELSE /\ pc' = "downloaded"
            /\ elements' = [i \in 1..Len(loaded_elements) |->
                               ProcessElement(loaded_elements[i], loaded_elements,
                                              types_dictionary, filtered_parameters)]
    /\ UNCHANGED <<arg, ret, types_dictionary, filtered_parameters,
                   loaded_elements, before, md_doc, md>>

Save ==
    /\ pc \in {"downloaded", "saved"}
    /\ \E d \in {Doc(elements)} :
           /\ before' = elements
           /\ elements' = d.elements
           /\ md_doc' = d.md_doc
           /\ md' = d.md
           /\ pc' = IF Raised(d.md) THEN "save raised"
                    ELSE IF pc = "downloaded" THEN "saved" ELSE "saved again"
    /\ UNCHANGED <<arg, ret, types_dictionary, filtered_parameters,
                   loaded_elements>>

Next == Download \/ Save

Spec == Init /\ [][Next]_vars

\* doc() has returned a document
Returned == pc \in {"saved", "saved again"}

(***************************************************************************)
(* Reading a document back: its blocks, and the headline of a section.     *)
(***************************************************************************)
HeadlineStart == <<"#", "#", "#", "<", "a", " ", "n", "a", "m", "e", "=", "\"">>

IsSectionBlock(block) ==
    /\ Len(block) >= Len(HeadlineStart)
    /\ SubSeq(block, 1, Len(HeadlineStart)) = HeadlineStart

\* the anchor in the headline of a section: up to the closing quote
HeadlineAnchor(block) ==
    UpTo(SubSeq(block, Len(HeadlineStart) + 1, Len(block)), "\"")

\* the name in the headline of a section: after the tag, up to the line end
HeadlineName(block) ==
    UpTo(SubSeq(block, Len(HeadlineStart) + Len(HeadlineAnchor(block)) + 4,
                Len(block)), "\n")

Contains(text, part) ==
    \E i \in 1..(Len(text) - Len(part) + 1) :
        SubSeq(text, i, i + Len(part) - 1) = part

\* the places in md_doc of a group's heading
PlacesOf(heading) == {i \in 1..Len(md_doc) : md_doc[i] = heading}

Categories == {TagCategory, TriggerCategory, VariableCategory}

\* the elements of a category among those handed to doc()
Given(category) ==
    {i \in 1..Len(before) : before[i].category = category}

\* the places in md_doc of the sections between two places
SectionsBetween(low, high) ==
    {i \in 1..Len(md_doc) : low < i /\ i < high /\ IsSectionBlock(md_doc[i])}

\* the sections between two places are those of the given elements, one
\* each, in ascending order of the name
GroupHolds(category, low, high) ==
    /\ \A i \in (low + 1)..(high - 1) : IsSectionBlock(md_doc[i])
    /\ Cardinality(SectionsBetween(low, high)) = Cardinality(Given(category))
    /\ \A e \in Given(category) :
           \E i \in SectionsBetween(low, high) :
               HeadlineName(md_doc[i]) = before[e].name
    /\ \A i, j \in SectionsBetween(low, high) :
           i < j => ~StrLess(HeadlineName(md_doc[j]), HeadlineName(md_doc[i]))

\* C1: the document has the headings '## Tags', '## Triggers', '## Variables'
\* in this order; the sections of the tags lie between the first two, those
\* of the triggers between the last two, those of the variables after the
\* last; and in each group the names ascend in plain string order.
GroupsInOrderSortedByName ==
    Returned =>
        \E t, r, v \in 1..Len(md_doc) :
            /\ PlacesOf(TagsHeading) = {t}
            /\ PlacesOf(TriggersHeading) = {r}
            /\ PlacesOf(VariablesHeading) = {v}
            /\ t = 1 /\ t < r /\ r < v
            /\ GroupHolds(TagCategory, t, r)
            /\ GroupHolds(TriggerCategory, r, v)
            /\ GroupHolds(VariableCategory, v, Len(md_doc) + 1)

\* two tags handed over in descending order of the name come out ascending
SortedGroupWitness ==
    /\ Returned
    /\ Len(before) >= 2
    /\ before[1].category = TagCategory
    /\ before[2].category = TagCategory
    /\ StrLess(before[2].name, before[1].name)
    /\ HeadlineName(md_doc[2]) = before[2].name
    /\ HeadlineName(md_doc[3]) = before[1].name

\* the names an element refers to, each with the text its link shows: the
\* firing triggers of a tag, and the keys and values written {{Name}} of
\* parameters and of a trigger's filters
ReferencesOf(items, field, shown(_)) ==
    {[name |-> InnerOf(items[i][field]), text |-> shown(InnerOf(items[i][field]))] :
        i \in {j \in 1..Len(items) :
                  field \in DOMAIN items[j] /\ Wrapped(items[j][field])}}

ItemReferences(items) ==
    ReferencesOf(items, "key", CamelToTitle)
        \cup ReferencesOf(items, "value", LAMBDA n : n)

References(element) ==
    (IF "parameter" \in DOMAIN element
     THEN ItemReferences(element.parameter) ELSE {})
    \cup (IF element.category = TagCategory /\ "triggers" \in DOMAIN element
          THEN {[name |-> element.triggers[i].value,
                 text |-> element.triggers[i].value] :
                    i \in 1..Len(element.triggers)}
          ELSE {})
    \cup (IF element.category = TriggerCategory /\ "filter" \in DOMAIN element
          THEN ItemReferences(element.filter) ELSE {})

\* the sections of the document under a headline with the name
SectionsNamed(name) ==
    {i \in 1..Len(md_doc) :
        IsSectionBlock(md_doc[i]) /\ HeadlineName(md_doc[i]) = name}

InputUnchanged ==
    Returned => elements = before

UnknownCategoryError == <<"UnknownCategoryError">>

\* C7: with an element of a category other than tag, trigger and variable
\* in the list, the build fails with an UnknownCategoryError.
UnknownCategoryFails ==
    (/\ pc \in {"saved", "saved again", "save raised"}
     /\ \E e \in 1..Len(before) :
            /\ "category" \in DOMAIN before[e]
            /\ before[e].category \notin Categories)
    => (pc = "save raised" /\ md = UnknownCategoryError)

\* C8: the document of no elements is the three headings, and a group
\* without elements has its heading with no section under it.
EmptyGroupsKeepHeadings ==
    Returned =>
        /\ before = <<>> => Str(md) = "## Tags\n\n## Triggers\n\n## Variables"
        /\ \A t \in PlacesOf(TagsHeading) :
               Given(TagCategory) = {} => md_doc[t + 1] = TriggersHeading
        /\ \A r \in PlacesOf(TriggersHeading) :
               Given(TriggerCategory) = {} => md_doc[r + 1] = VariablesHeading
        /\ \A v \in PlacesOf(VariablesHeading) :
               Given(VariableCategory) = {} => v = Len(md_doc)
        /\ PlacesOf(TagsHeading) # {}
        /\ PlacesOf(TriggersHeading) # {}
        /\ PlacesOf(VariablesHeading) # {}
        /\ md = Join(<<"\n", "\n">>, md_doc)

NoElementsWitness ==
    /\ Returned
    /\ before = <<>>
    /\ Str(md) = "## Tags\n\n## Triggers\n\n## Variables"

\* the elements download() hands to the first call of doc()
Processed ==
    [i \in 1..Len(loaded_elements) |->
        ProcessElement(loaded_elements[i], loaded_elements,
                       types_dictionary, filtered_parameters)]

\* C13: the second call of doc() on the same list returns the document the
\* first call returned.
SecondDocumentSame ==
    pc = "saved again" => md = Doc(Processed).md

====
